---- MODULE Spec2Model ----
(***************************************************************************)
(* Model of the schema correction and extraction pipeline of build.rs:     *)
(* load the OpenAPI document, patch components.schemas, deserialize the    *)
(* patched schemas into the definitions map, generate and write the code.  *)
(*                                                                         *)
(* A serde_json::Value is a record [t, s, m]: t is the variant tag, s the  *)
(* payload of a scalar, m the children (a function from keys for an        *)
(* object, a sequence for an array, <<>> for a scalar).                    *)
(***************************************************************************)
EXTENDS Integers, Sequences, FiniteSets, TLC

VARIABLES pc, content, preserve_order, spec_value, key_order, err,
          patches_run, applied, prev, definitions, generator_input, out_file

\* The state of the shared HttpClient and of the tasks that call it.
VARIABLES auth_token, lock, tpc, op, hdr, resp, result, calls, server,
          writes, any_err

pipeVars == <<pc, content, preserve_order, spec_value, key_order, err,
              patches_run, applied, prev, definitions, generator_input, out_file>>

authVars == <<auth_token, lock, tpc, op, hdr, resp, result, calls, server,
              writes, any_err>>

vars == <<pipeVars, authVars>>

\* ------------------------------------------------------------------ bounds
MaxDepth == 3
MaxApply == 3
NumTasks == 2
MaxCalls == 2

\* ------------------------------------------------------- serde_json::Value
JNull == [t |-> "null", s |-> "", m |-> <<>>]
JBool(b) == [t |-> "bool", s |-> b, m |-> <<>>]
JStr(x) == [t |-> "str", s |-> x, m |-> <<>>]
JNum(x) == [t |-> "num", s |-> x, m |-> <<>>]
JArr(q) == [t |-> "arr", s |-> "", m |-> q]
JObj(f) == [t |-> "obj", s |-> "", m |-> f]
JTrue == JBool("true")
JFalse == JBool("false")
EmptyObj == JObj(<<>>)

\* Value::get / Value::get_mut with a string index: Some only on an object
\* that holds the key.
Has(v, k) == v.t = "obj" /\ k \in DOMAIN v.m

\* Map::insert: replaces the value of an existing key, else adds the key.
Insert(o, k, val) == [o EXCEPT !.m = (k :> val) @@ o.m]

\* Value == &str: true only for a JSON string with that content.
EqStr(v, x) == v.t = "str" /\ v.s = x

\* json!(["string", "null"])
StringOrNull == JArr(<<JStr("string"), JStr("null")>>)

\* ----------------------------------------------------------------- errors
schema_name == "ParameterProviderDTO"
field_name == "properties"

NoErr == [kind |-> "none", schema |-> "", field |-> "", segment |-> ""]
Panic(kind, schema, field, segment) ==
    [kind |-> kind, schema |-> schema, field |-> field, segment |-> segment]

\* The six expect() messages of the navigation chain: which of schema_name
\* and field_name each message is formatted with, and the segment it names.
ErrNoSchema == Panic("PathResolution", schema_name, "", schema_name)
ErrNoPropertiesMap == Panic("PathResolution", schema_name, "", "properties")
ErrNoField == Panic("PathResolution", schema_name, field_name, field_name)
ErrFieldNotObject == Panic("PathResolution", "", field_name, field_name)
ErrNoAddProps == Panic("PathResolution", "", field_name, "additionalProperties")
ErrAddPropsNotObject == Panic("PathResolution", "", "", "additionalProperties")
ErrMissingSection == Panic("MissingSection", "", "", "components.schemas")


\* ------------------------------------------------------------ the patches
\* PARCHE A: field_obj.insert("nullable", true).
\* (variant that rebuilds the field object instead of inserting into it)
patch_a_rebuild(field_obj) ==
    JObj([k \in {"nullable"} \cup (DOMAIN field_obj.m \cap {"additionalProperties"}) |->
            IF k = "nullable" THEN JTrue ELSE field_obj.m[k]])

patch_a(field_obj) == Insert(field_obj, "nullable", JTrue)

\* PARCHE B: the rewrite of the additionalProperties object.
\* (variant that never rewrites the type and always falls back to nullable)
patch_b_fallback_only(add_props_obj) == Insert(add_props_obj, "nullable", JTrue)

\* (variant that writes the nullable marker in both branches)
patch_b_both(add_props_obj) ==
    IF "type" \in DOMAIN add_props_obj.m /\ EqStr(add_props_obj.m["type"], "string")
    THEN Insert(Insert(add_props_obj, "type", StringOrNull), "nullable", JTrue)
    ELSE Insert(add_props_obj, "nullable", JTrue)

\* (variant that turns ["string","null"] back into "string" when it finds it)
patch_b_toggle(add_props_obj) ==
    IF "type" \in DOMAIN add_props_obj.m /\ EqStr(add_props_obj.m["type"], "string")
    THEN Insert(add_props_obj, "type", StringOrNull)
    ELSE IF "type" \in DOMAIN add_props_obj.m /\ add_props_obj.m["type"] = StringOrNull
    THEN Insert(add_props_obj, "type", JStr("string"))
    ELSE Insert(add_props_obj, "nullable", JTrue)

patch_b(add_props_obj) ==
    IF "type" \in DOMAIN add_props_obj.m /\ EqStr(add_props_obj.m["type"], "string")
    THEN Insert(add_props_obj, "type", StringOrNull)
    ELSE Insert(add_props_obj, "nullable", JTrue)

\* The navigation chain down to the field: the first expect() that fails.
nav_error(schemas) ==
    IF ~Has(schemas, schema_name) THEN ErrNoSchema
    ELSE IF ~Has(schemas.m[schema_name], "properties") THEN ErrNoPropertiesMap
    ELSE IF ~Has(schemas.m[schema_name].m["properties"], field_name) THEN ErrNoField
    ELSE IF schemas.m[schema_name].m["properties"].m[field_name].t # "obj"
         THEN ErrFieldNotObject
    ELSE NoErr

\* The schemas tree with the field node replaced (the &mut borrow writes
\* through to the tree).
WithField(schemas, f) ==
    [schemas EXCEPT !.m[schema_name].m["properties"].m[field_name] = f]

\* patch_parameter_provider_dto_properties: the error of the expect() that
\* panicked (NoErr on success) and the schemas tree as it is at that moment.
\* (variant that returns without a change when additionalProperties is not
\* an object)
patch_skip_shorthand(schemas) ==
    IF nav_error(schemas) # NoErr
    THEN [err |-> nav_error(schemas), tree |-> schemas]
    ELSE LET field_obj == patch_a(schemas.m[schema_name].m["properties"].m[field_name])
         IN  IF "additionalProperties" \notin DOMAIN field_obj.m
             THEN [err |-> ErrNoAddProps, tree |-> WithField(schemas, field_obj)]
             ELSE IF field_obj.m["additionalProperties"].t # "obj"
             THEN [err |-> NoErr, tree |-> schemas]
             ELSE [err |-> NoErr,
                   tree |-> WithField(schemas,
                              Insert(field_obj, "additionalProperties",
                                     patch_b(field_obj.m["additionalProperties"])))]

patch_parameter_provider_dto_properties(schemas) ==
    IF nav_error(schemas) # NoErr
    THEN [err |-> nav_error(schemas), tree |-> schemas]
    ELSE LET field_obj == patch_a(schemas.m[schema_name].m["properties"].m[field_name])
         IN  IF "additionalProperties" \notin DOMAIN field_obj.m
             THEN [err |-> ErrNoAddProps, tree |-> WithField(schemas, field_obj)]
             ELSE IF field_obj.m["additionalProperties"].t # "obj"
             THEN [err |-> ErrAddPropsNotObject, tree |-> WithField(schemas, field_obj)]
             ELSE [err |-> NoErr,
                   tree |-> WithField(schemas,
                              Insert(field_obj, "additionalProperties",
                                     patch_b(field_obj.m["additionalProperties"])))]

\* spec_value.get("components").and_then(|c| c.get("schemas"))
HasSchemas(v) == Has(v, "components") /\ Has(v.m["components"], "schemas")
SchemasOf(v) == v.m["components"].m["schemas"]
\* (variant that rebuilds the document around the schemas object)
WithSchemasRebuilt(v, sch) == JObj("components" :> JObj("schemas" :> sch))

WithSchemas(v, sch) == [v EXCEPT !.m["components"].m["schemas"] = sch]

\* (variant that skips the patches when the section is missing)
apply_all_patches_skip(v) ==
    IF ~HasSchemas(v)
    THEN [err |-> NoErr, tree |-> v, patches_run |-> 0]
    ELSE LET r == patch_parameter_provider_dto_properties(SchemasOf(v))
         IN  [err |-> r.err, tree |-> WithSchemas(v, r.tree), patches_run |-> 1]

\* (variant that ignores a failed patch and carries on)
apply_all_patches_swallow(v) ==
    IF ~HasSchemas(v)
    THEN [err |-> ErrMissingSection, tree |-> v, patches_run |-> 0]
    ELSE LET r == patch_parameter_provider_dto_properties(SchemasOf(v))
         IN  [err |-> NoErr, tree |-> WithSchemas(v, r.tree), patches_run |-> 1]

\* apply_all_patches: locate components.schemas, then run the patch list.
apply_all_patches(v) ==
    IF ~HasSchemas(v)
    THEN [err |-> ErrMissingSection, tree |-> v, patches_run |-> 0]
    ELSE LET r == patch_parameter_provider_dto_properties(SchemasOf(v))
         IN  [err |-> r.err, tree |-> WithSchemas(v, r.tree), patches_run |-> 1]

\* ------------------------------------------------------------- extraction
\* The schema names of the modelled documents, in the order of String's Ord
\* (bytewise), which is the order in which a BTreeMap keeps its keys.
KeysAscending == <<"Alpha", "ParameterProviderDTO", "Zeta">>
Rank(k) == CHOOSE i \in 1..Len(KeysAscending) : KeysAscending[i] = k
StrLess(a, b) == Rank(a) < Rank(b)

\* schemars::schema::InstanceType
InstanceTypes == {"null", "boolean", "object", "array", "number", "string", "integer"}

\* "type": SingleOrVec<InstanceType>
TypeCastable(v) ==
    \/ v.t = "str" /\ v.s \in InstanceTypes
    \/ v.t = "arr" /\ \A i \in DOMAIN v.m : v.m[i].t = "str" /\ v.m[i].s \in InstanceTypes

\* Deserialize for schemars::schema::Schema (untagged: Bool | Object): a
\* boolean, or an object whose typed members deserialize; every other key
\* (such as "nullable") lands in the extensions map, whatever its value.
RECURSIVE Castable(_)
Castable(v) ==
    \/ v.t = "bool"
    \/ /\ v.t = "obj"
       /\ "type" \in DOMAIN v.m => TypeCastable(v.m["type"])
       /\ "properties" \in DOMAIN v.m =>
             /\ v.m["properties"].t = "obj"
             /\ \A k \in DOMAIN v.m["properties"].m : Castable(v.m["properties"].m[k])
       /\ "additionalProperties" \in DOMAIN v.m => Castable(v.m["additionalProperties"])
       /\ "allOf" \in DOMAIN v.m =>
             /\ v.m["allOf"].t = "arr"
             /\ \A i \in DOMAIN v.m["allOf"].m : Castable(v.m["allOf"].m[i])

\* (variant of BTreeMap::insert that overwrites the entry it should go before)
RECURSIVE BTreeInsertOverwrite(_, _)
BTreeInsertOverwrite(entries, e) ==
    IF entries = <<>> THEN <<e>>
    ELSE IF StrLess(e.name, Head(entries).name) THEN <<e>> \o Tail(entries)
    ELSE <<Head(entries)>> \o BTreeInsertOverwrite(Tail(entries), e)

\* BTreeMap::insert of a new key: the entry goes to its place in key order.
RECURSIVE BTreeInsert(_, _)
BTreeInsert(entries, e) ==
    IF entries = <<>> THEN <<e>>
    ELSE IF StrLess(e.name, Head(entries).name) THEN <<e>> \o entries
    ELSE <<Head(entries)>> \o BTreeInsert(Tail(entries), e)

\* Collecting the visited entries of the schemas object into the map.
\* (variant for a map that keeps insertion order)
RECURSIVE CollectInsertionOrder(_, _, _)
CollectInsertionOrder(schemas_value, order, acc) ==
    IF order = <<>> THEN acc
    ELSE CollectInsertionOrder(schemas_value, Tail(order),
            Append(acc, [name |-> Head(order), schema |-> schemas_value.m[Head(order)]]))

RECURSIVE Collect(_, _, _)
Collect(schemas_value, order, acc) ==
    IF order = <<>> THEN acc
    ELSE Collect(schemas_value, Tail(order),
            BTreeInsert(acc, [name |-> Head(order), schema |-> schemas_value.m[Head(order)]]))

ErrSchemaCast == Panic("SchemaCast", "", "", "")

\* (variant that leaves out the entries that do not deserialize)
from_value_lossy(schemas_value, order) ==
    IF schemas_value.t # "obj"
    THEN [err |-> ErrSchemaCast, entries |-> <<>>]
    ELSE [err |-> NoErr,
          entries |-> Collect(schemas_value,
                        SelectSeq(order, LAMBDA k : Castable(schemas_value.m[k])), <<>>)]

\* serde_json::from_value::<BTreeMap<String, Schema>>(schemas_value.clone()):
\* order is the order in which the Value's map hands out its entries.
from_value(schemas_value, order) ==
    IF schemas_value.t # "obj" \/ \E k \in DOMAIN schemas_value.m : ~Castable(schemas_value.m[k])
    THEN [err |-> ErrSchemaCast, entries |-> <<>>]
    ELSE [err |-> NoErr, entries |-> Collect(schemas_value, order, <<>>)]

\* ------------------------------------------------------ input documents
\* A marker for "key not present" used only to build the documents.
Absent == [t |-> "absent", s |-> "", m |-> <<>>]
Opt(k, v) == IF v = Absent THEN <<>> ELSE k :> v

\* The additionalProperties values tried under the target field.
AddPropsChoices ==
    { Absent, JTrue, EmptyObj,
      JObj("type" :> JStr("string")),
      JObj("type" :> JStr("integer")),
      JObj("type" :> StringOrNull),
      JObj("type" :> JStr("string") @@ "nullable" :> JFalse),
      JObj("type" :> JStr("integer") @@ "nullable" :> JFalse) }

\* The values tried for ParameterProviderDTO.properties.properties.
FieldChoices ==
    { Absent, JStr("map") } \cup
    { JObj(Opt("type", ty) @@ Opt("nullable", nul) @@ Opt("additionalProperties", ap)) :
        ty \in {Absent, JStr("object")}, nul \in {Absent, JFalse}, ap \in AddPropsChoices }

\* The values tried for ParameterProviderDTO.properties.
PropertiesChoices ==
    { Absent, JArr(<<>>) } \cup
    { JObj("name" :> JObj("type" :> JStr("string")) @@ Opt(field_name, f)) : f \in FieldChoices }

\* The values tried for the ParameterProviderDTO entry.
DtoChoices ==
    { Absent, JTrue } \cup
    { JObj("type" :> JStr("object") @@ Opt("properties", p)) : p \in PropertiesChoices }

\* A string map schema: the shape the structural pattern describes.
StringMap == JObj("type" :> JStr("object") @@ "additionalProperties" :> JObj("type" :> JStr("string")))

\* StringMap nested d levels deep inside allOf arrays, next to a sibling.
RECURSIVE Nested(_)
Nested(d) ==
    IF d = 0 THEN StringMap
    ELSE JObj("allOf" :> JArr(<<Nested(d - 1), JObj("type" :> JStr("integer"))>>))

\* The values tried for the entry Alpha and for the entry Zeta.
AlphaChoices == { Absent, JObj("type" :> JStr("string")) } \cup { Nested(d) : d \in 0..MaxDepth }
ZetaChoices ==
    { Absent, JNum("7"),
      JObj("type" :> JStr("object") @@ "additionalProperties" :> JTrue),
      JObj("type" :> JStr("object") @@ "properties" :> JObj("id" :> JObj("type" :> JNum("5")))) }

SchemasChoices ==
    { JObj(Opt("Alpha", a) @@ Opt(schema_name, d) @@ Opt("Zeta", z)) :
        a \in AlphaChoices, d \in DtoChoices, z \in ZetaChoices }

\* The orders in which a document's text can list the keys of an object.
Orders(S) == { q \in [1..Cardinality(S) -> S] : \A k \in S : \E i \in DOMAIN q : q[i] = k }

Doc(value, order) == [readable |-> TRUE, wellformed |-> TRUE, value |-> value, order |-> order]

\* The inputs: an unreadable file, ill-formed text, documents without the
\* section, a schemas section that is not an object, and the documents
\* built from the choices above in every key order.
Contents ==
    { [readable |-> FALSE, wellformed |-> FALSE, value |-> JNull, order |-> <<>>],
      [readable |-> TRUE, wellformed |-> FALSE, value |-> JNull, order |-> <<>>],
      Doc(JObj("openapi" :> JStr("3.0.1")), <<>>),
      Doc(JObj("components" :> JStr("none")), <<>>),
      Doc(JObj("components" :> EmptyObj), <<>>),
      Doc(JObj("components" :> JObj("schemas" :> JArr(<<>>))), <<>>) } \cup
    { Doc(JObj("openapi" :> JStr("3.0.1") @@ "components" :> JObj("schemas" :> sch)), q) :
        <<sch, q>> \in UNION { {sc} \X Orders(DOMAIN sc.m) : sc \in SchemasChoices } }

\* The keys of the schemas object in ascending order.
Ascending(S) == SelectSeq(KeysAscending, LAMBDA k : k \in S)

\* ------------------------------------------------- the shared HttpClient
\* The tasks; task h calls the client through its own handle h (a clone of
\* the HttpClient or of the Arc around it).
Tasks == 1..NumTasks
Cells == 1..NumTasks

\* The RwLock<Option<String>> a handle points to: #[derive(Clone)] clones the
\* Arc, so every handle points to the one cell made by HttpClient::new.
\* (variant in which a clone gets a cell of its own)
CellPerHandle(h) == h

Cell(h) == 1

\* Option<String>: 0 is None, n > 0 is Some(the n-th token the server issued).
None == 0

\* set_auth_token: *guard = Some(token).
\* (variant that keeps a token that is already stored)
set_auth_token_if_empty(old, token) == IF old = None THEN token ELSE old

set_auth_token(old, token) == token

\* clear_auth_token: *guard = None.
\* (variant that leaves the token in place)
clear_auth_token_noop(old) == old

clear_auth_token(old) == None

\* The Authorization header execute_request puts on the request.
NoAuthHeader == [scheme |-> "none", token |-> None]
bearer_auth(token) == [scheme |-> "Bearer", token |-> token]
AuthHeader(stored) == IF stored # None THEN bearer_auth(stored) ELSE NoAuthHeader

\* tokio::sync::RwLock: any number of readers or one writer; requests are
\* served in the order in which they were made, so a request waits behind
\* the ones already waiting.
NoLock == [readers |-> {}, writer |-> 0, queue |-> <<>>]
CanGrant(L, mode) ==
    IF mode = "read" THEN L.writer = 0 ELSE L.writer = 0 /\ L.readers = {}
Grant(L, p, mode) ==
    IF mode = "read" THEN [L EXCEPT !.readers = @ \cup {p}] ELSE [L EXCEPT !.writer = p]
Acquire(L, p, mode) ==
    IF L.queue = <<>> /\ CanGrant(L, mode)
    THEN Grant(L, p, mode)
    ELSE [L EXCEPT !.queue = Append(@, [task |-> p, mode |-> mode])]

\* Dropping a guard hands the lock to the waiting requests at the head of
\* the queue, as far as they are compatible.
RECURSIVE Drain(_)
Drain(L) ==
    IF L.queue # <<>> /\ CanGrant(L, Head(L.queue).mode)
    THEN Drain(Grant([L EXCEPT !.queue = Tail(@)], Head(L.queue).task, Head(L.queue).mode))
    ELSE L
Release(L, p) ==
    Drain([L EXCEPT !.readers = @ \ {p}, !.writer = IF @ = p THEN 0 ELSE @])

\* The calls a task makes on the client: Access::get_access_token,
\* Access::logout, HttpClient::get_json and HttpClient::get_auth_token.
Ops == {"login", "logout", "get_json", "get_auth_token"}

\* The statuses the server answers with: one that is_success() and two for
\* which error_for_status gives an error (is_client_error, is_server_error).
SuccessStatus == "200"
ErrorStatuses == {"401", "500"}

NoResp == [status |-> "none", token |-> None, seen |-> 0]
NoResult == [op |-> "none", kind |-> "none", status |-> "none", token |-> None, seen |-> 0]

AuthInit ==
    /\ auth_token = [c \in Cells |-> None]
    /\ lock = [c \in Cells |-> NoLock]
    /\ tpc = [p \in Tasks |-> "idle"]
    /\ op = [p \in Tasks |-> "none"]
    /\ hdr = [p \in Tasks |-> NoAuthHeader]
    /\ resp = [p \in Tasks |-> NoResp]
    /\ result = [p \in Tasks |-> NoResult]
    /\ calls = 0
    /\ server = [issued |-> 0, last |-> "none", token |-> None]
    /\ writes = 0
    /\ any_err = FALSE

\* The call of task p returns to its caller: kind is Ok or the variant of
\* HttpClientError, status the status an HttpError carries, token the token
\* the call returns; seen is how many writes of the token had been made when
\* the call last touched the token.
Return(p, kind, status, token, seen) ==
    /\ tpc' = [tpc EXCEPT ![p] = "idle"]
    /\ result' = [result EXCEPT ![p] = [op |-> op[p], kind |-> kind, status |-> status, token |-> token, seen |-> seen]]
    /\ calls' = calls
    /\ any_err' = (any_err \/ kind # "Ok")
    /\ op' = [op EXCEPT ![p] = "none"]
    /\ hdr' = [hdr EXCEPT ![p] = NoAuthHeader]
    /\ resp' = [resp EXCEPT ![p] = NoResp]

\* A task starts a call (calls counts the calls made so far by all tasks).
\* get_access_token, logout and get_json enter
\* execute_request, which asks for the read lock; get_auth_token asks for
\* the read lock itself.
Call(p) ==
    /\ tpc[p] = "idle"
    /\ calls < MaxCalls
    /\ calls' = calls + 1
    /\ result' = [result EXCEPT ![p] = NoResult]
    /\ \E o \in Ops :
          /\ op' = [op EXCEPT ![p] = o]
          /\ tpc' = [tpc EXCEPT ![p] = IF o = "get_auth_token" THEN "get_read" ELSE "exec_read"]
    /\ lock' = [lock EXCEPT ![Cell(p)] = Acquire(@, p, "read")]
    /\ UNCHANGED <<auth_token, hdr, resp, server, writes, any_err>>
    /\ UNCHANGED pipeVars

\* execute_request with the read lock: add the Bearer header if a token is
\* stored, and send the request.
\* (variant that drops the read guard as soon as the header is chosen)
SendReleasing(p) ==
    /\ tpc[p] = "exec_read"
    /\ p \in lock[Cell(p)].readers
    /\ hdr' = [hdr EXCEPT ![p] = AuthHeader(auth_token[Cell(p)])]
    /\ lock' = [lock EXCEPT ![Cell(p)] = Release(@, p)]
    /\ tpc' = [tpc EXCEPT ![p] = "in_flight"]
    /\ UNCHANGED <<auth_token, op, resp, result, calls, server, writes, any_err>>
    /\ UNCHANGED pipeVars

Send(p) ==
    /\ tpc[p] = "exec_read"
    /\ p \in lock[Cell(p)].readers
    /\ hdr' = [hdr EXCEPT ![p] = AuthHeader(auth_token[Cell(p)])]
    /\ tpc' = [tpc EXCEPT ![p] = "in_flight"]
    /\ UNCHANGED <<auth_token, lock, op, resp, result, calls, server, writes, any_err>>
    /\ UNCHANGED pipeVars

\* The server processes the request of task p: it accepts it (a login
\* issues a new token) or answers with a 4xx/5xx status.
Serve(p) ==
    /\ tpc[p] = "in_flight"
    /\ \E st \in {SuccessStatus} \cup ErrorStatuses :
          IF st \in ErrorStatuses
          THEN /\ resp' = [resp EXCEPT ![p] = [status |-> st, token |-> None, seen |-> 0]]
               /\ server' = server
          ELSE IF op[p] = "login"
          THEN /\ resp' = [resp EXCEPT ![p] = [status |-> SuccessStatus, token |-> server.issued + 1, seen |-> 0]]
               /\ server' = [issued |-> server.issued + 1, last |-> "login",
                             token |-> server.issued + 1]
          ELSE IF op[p] = "logout"
          THEN /\ resp' = [resp EXCEPT ![p] = [status |-> SuccessStatus, token |-> None, seen |-> 0]]
               /\ server' = [server EXCEPT !.last = "logout", !.token = None]
          ELSE /\ resp' = [resp EXCEPT ![p] = [status |-> SuccessStatus, token |-> None, seen |-> 0]]
               /\ server' = server
    /\ tpc' = [tpc EXCEPT ![p] = "served"]
    /\ UNCHANGED <<auth_token, lock, op, hdr, result, calls, writes, any_err>>
    /\ UNCHANGED pipeVars

\* builder.send().await fails (connection error, timeout), before or after
\* the server has processed the request: execute_request returns
\* RequestError and drops the read guard.
\* (variant in which a logout whose request failed clears the token anyway)
TransportFailClearing(p) ==
    /\ tpc[p] \in {"in_flight", "served"}
    /\ lock' = [lock EXCEPT ![Cell(p)] = Release(@, p)]
    /\ Return(p, "RequestError", "none", None, 0)
    /\ auth_token' = IF op[p] = "logout"
                     THEN [auth_token EXCEPT ![Cell(p)] = clear_auth_token(@)]
                     ELSE auth_token
    /\ UNCHANGED <<server, writes>>
    /\ UNCHANGED pipeVars

TransportFail(p) ==
    /\ tpc[p] \in {"in_flight", "served"}
    /\ lock' = [lock EXCEPT ![Cell(p)] = Release(@, p)]
    /\ Return(p, "RequestError", "none", None, 0)
    /\ UNCHANGED <<auth_token, server, writes>>
    /\ UNCHANGED pipeVars

\* The response arrives: error_for_status turns a 4xx/5xx status into
\* HttpError; execute_request returns and drops the read guard.
\* (variant that forgets the stored token when the server answers 4xx/5xx)
ReceiveInvalidating(p) ==
    /\ tpc[p] = "served"
    /\ lock' = [lock EXCEPT ![Cell(p)] = Release(@, p)]
    /\ IF resp[p].status \in ErrorStatuses
       THEN /\ Return(p, "HttpError", resp[p].status, None, 0)
            /\ auth_token' = [auth_token EXCEPT ![Cell(p)] = None]
       ELSE /\ tpc' = [tpc EXCEPT ![p] = "parse"]
            /\ auth_token' = auth_token
            /\ UNCHANGED <<op, hdr, resp, result, calls, any_err>>
    /\ UNCHANGED <<server, writes>>
    /\ UNCHANGED pipeVars

\* (variant that keeps the read guard alive after a successful response)
ReceiveHolding(p) ==
    /\ tpc[p] = "served"
    /\ IF resp[p].status \in ErrorStatuses
       THEN /\ Return(p, "HttpError", resp[p].status, None, 0)
            /\ lock' = [lock EXCEPT ![Cell(p)] = Release(@, p)]
       ELSE /\ tpc' = [tpc EXCEPT ![p] = "parse"]
            /\ lock' = lock
            /\ UNCHANGED <<op, hdr, resp, result, calls, any_err>>
    /\ UNCHANGED <<auth_token, server, writes>>
    /\ UNCHANGED pipeVars

\* (variant without the status check: every response goes on to the parser)
ReceiveUnchecked(p) ==
    /\ tpc[p] = "served"
    /\ lock' = [lock EXCEPT ![Cell(p)] = Release(@, p)]
    /\ tpc' = [tpc EXCEPT ![p] = "parse"]
    /\ UNCHANGED <<op, hdr, resp, result, calls, any_err>>
    /\ UNCHANGED <<auth_token, server, writes>>
    /\ UNCHANGED pipeVars

Receive(p) ==
    /\ tpc[p] = "served"
    /\ lock' = [lock EXCEPT ![Cell(p)] = Release(@, p)]
    /\ IF resp[p].status \in ErrorStatuses
       THEN Return(p, "HttpError", resp[p].status, None, 0)
       ELSE /\ tpc' = [tpc EXCEPT ![p] = "parse"]
            /\ UNCHANGED <<op, hdr, resp, result, calls, any_err>>
    /\ UNCHANGED <<auth_token, server, writes>>
    /\ UNCHANGED pipeVars

\* The body is turned into the call's value: text() for the login, nothing
\* for the logout, json() for get_json; reading or deserializing the body
\* can fail except for ().  After that the login asks for the write lock in
\* set_auth_token, the logout in clear_auth_token, and get_json returns.
Parse(p) ==
    /\ tpc[p] = "parse"
    /\ \E readable \in (IF op[p] = "logout" THEN {TRUE} ELSE BOOLEAN) :
          IF ~readable
          THEN /\ Return(p, "ParseError", "none", None, 0)
               /\ lock' = lock
          ELSE IF op[p] = "get_json"
          THEN /\ Return(p, "Ok", "none", None, 0)
               /\ lock' = lock
          ELSE /\ tpc' = [tpc EXCEPT ![p] = IF op[p] = "login" THEN "set_write" ELSE "clear_write"]
               /\ lock' = [lock EXCEPT ![Cell(p)] = Acquire(@, p, "write")]
               /\ UNCHANGED <<op, hdr, resp, result, calls, any_err>>
    /\ UNCHANGED <<auth_token, server, writes>>
    /\ UNCHANGED pipeVars

\* set_auth_token with the write lock: store the token and drop the guard.
Store(p) ==
    /\ tpc[p] = "set_write"
    /\ lock[Cell(p)].writer = p
    /\ auth_token' = [auth_token EXCEPT ![Cell(p)] = set_auth_token(@, resp[p].token)]
    /\ lock' = [lock EXCEPT ![Cell(p)] = Release(@, p)]
    /\ writes' = writes + 1
    /\ resp' = [resp EXCEPT ![p].seen = writes + 1]
    /\ tpc' = [tpc EXCEPT ![p] = "stored"]
    /\ UNCHANGED <<op, hdr, result, calls, server, any_err>>
    /\ UNCHANGED pipeVars

\* clear_auth_token with the write lock: clear the token and drop the guard.
Clear(p) ==
    /\ tpc[p] = "clear_write"
    /\ lock[Cell(p)].writer = p
    /\ auth_token' = [auth_token EXCEPT ![Cell(p)] = clear_auth_token(@)]
    /\ lock' = [lock EXCEPT ![Cell(p)] = Release(@, p)]
    /\ writes' = writes + 1
    /\ resp' = [resp EXCEPT ![p].seen = writes + 1]
    /\ tpc' = [tpc EXCEPT ![p] = "stored"]
    /\ UNCHANGED <<op, hdr, result, calls, server, any_err>>
    /\ UNCHANGED pipeVars

\* get_access_token returns Ok(response), logout returns Ok(()).
Finish(p) ==
    /\ tpc[p] = "stored"
    /\ Return(p, "Ok", "none", resp[p].token, resp[p].seen)
    /\ UNCHANGED <<auth_token, lock, server, writes>>
    /\ UNCHANGED pipeVars

\* get_auth_token with the read lock: return a clone of the stored token.
ReadToken(p) ==
    /\ tpc[p] = "get_read"
    /\ p \in lock[Cell(p)].readers
    /\ lock' = [lock EXCEPT ![Cell(p)] = Release(@, p)]
    /\ Return(p, "Ok", "none", auth_token[Cell(p)], writes)
    /\ UNCHANGED <<auth_token, server, writes>>
    /\ UNCHANGED pipeVars

\* ------------------------------------------------------------- pipeline
NoMap == [set |-> FALSE, entries |-> <<>>]

Init ==
    /\ pc = "start"
    /\ content \in Contents
    /\ preserve_order \in BOOLEAN
    /\ spec_value = JNull
    /\ key_order = <<>>
    /\ err = NoErr
    /\ patches_run = 0
    /\ applied = 0
    /\ prev = JNull
    /\ definitions = NoMap
    /\ generator_input = NoMap
    /\ out_file = "absent"
    /\ AuthInit

\* (variant of step 1 that carries on with Value::Null when the text does
\* not parse)
LoadLenient ==
    /\ pc = "start"
    /\ IF ~content.readable
       THEN /\ pc' = "panicked"
            /\ err' = Panic("Read", "", "", "")
            /\ UNCHANGED <<spec_value, key_order>>
       ELSE /\ pc' = "loaded"
            /\ spec_value' = content.value
            /\ key_order' = IF preserve_order THEN content.order
                            ELSE Ascending({content.order[i] : i \in DOMAIN content.order})
            /\ err' = err
    /\ UNCHANGED <<content, preserve_order, patches_run, applied, prev,
                   definitions, generator_input, out_file>>
    /\ UNCHANGED authVars

\* main, step 1: read the file and parse it into a generic Value.  With
\* serde_json's preserve_order feature an object hands out its keys in the
\* order of the text, without it in ascending key order.
Load ==
    /\ pc = "start"
    /\ IF ~content.readable
       THEN /\ pc' = "panicked"
            /\ err' = Panic("Read", "", "", "")
            /\ UNCHANGED <<spec_value, key_order>>
       ELSE IF ~content.wellformed
       THEN /\ pc' = "panicked"
            /\ err' = Panic("Parse", "", "", "")
            /\ UNCHANGED <<spec_value, key_order>>
       ELSE /\ pc' = "loaded"
            /\ spec_value' = content.value
            /\ key_order' = IF preserve_order THEN content.order
                            ELSE Ascending({content.order[i] : i \in DOMAIN content.order})
            /\ err' = err
    /\ UNCHANGED <<content, preserve_order, patches_run, applied, prev,
                   definitions, generator_input, out_file>>
    /\ UNCHANGED authVars

\* One call of apply_all_patches on the document.
ApplyTo(v) ==
    LET r == apply_all_patches(v)
    IN  /\ spec_value' = r.tree
        /\ prev' = v
        /\ applied' = applied + 1
        /\ patches_run' = patches_run + r.patches_run
        /\ err' = r.err
        /\ pc' = IF r.err = NoErr THEN "patched" ELSE "panicked"
        /\ UNCHANGED <<content, preserve_order, key_order,
                       definitions, generator_input, out_file>>
        /\ UNCHANGED authVars

\* main, step 2: apply_all_patches(&mut spec_value).
Patch ==
    /\ pc = "loaded"
    /\ ApplyTo(spec_value)

\* (variant of steps 3 to 5 that runs on the document as loaded, before the
\* patches)
ExtractEarly ==
    /\ pc = "loaded"
    /\ IF ~HasSchemas(spec_value)
       THEN /\ pc' = "panicked"
            /\ err' = ErrMissingSection
            /\ definitions' = definitions
       ELSE LET r == from_value(SchemasOf(spec_value), key_order)
            IN  IF r.err # NoErr
                THEN /\ pc' = "panicked"
                     /\ err' = r.err
                     /\ definitions' = definitions
                ELSE /\ pc' = "extracted"
                     /\ err' = err
                     /\ definitions' = [set |-> TRUE, entries |-> r.entries]
    /\ UNCHANGED <<content, preserve_order, spec_value, key_order, patches_run,
                   applied, prev, generator_input, out_file>>
    /\ UNCHANGED authVars

\* (variant of steps 3 to 5 that moves the schemas object out of the
\* document with Value::take instead of cloning it)
ExtractTake ==
    /\ pc = "patched"
    /\ IF ~HasSchemas(spec_value)
       THEN /\ pc' = "panicked"
            /\ err' = ErrMissingSection
            /\ definitions' = definitions
            /\ spec_value' = spec_value
       ELSE LET r == from_value(SchemasOf(spec_value), key_order)
            IN  /\ spec_value' = WithSchemas(spec_value, JNull)
                /\ IF r.err # NoErr
                   THEN /\ pc' = "panicked"
                        /\ err' = r.err
                        /\ definitions' = definitions
                   ELSE /\ pc' = "extracted"
                        /\ err' = err
                        /\ definitions' = [set |-> TRUE, entries |-> r.entries]
    /\ UNCHANGED <<content, preserve_order, key_order, patches_run,
                   applied, prev, generator_input, out_file>>
    /\ UNCHANGED authVars

\* main, steps 3 to 5: re-read components.schemas and deserialize it into
\* the definitions of the root schema.
Extract ==
    /\ pc = "patched"
    /\ IF ~HasSchemas(spec_value)
       THEN /\ pc' = "panicked"
            /\ err' = ErrMissingSection
            /\ definitions' = definitions
       ELSE LET r == from_value(SchemasOf(spec_value), key_order)
            IN  IF r.err # NoErr
                THEN /\ pc' = "panicked"
                     /\ err' = r.err
                     /\ definitions' = definitions
                ELSE /\ pc' = "extracted"
                     /\ err' = err
                     /\ definitions' = [set |-> TRUE, entries |-> r.entries]
    /\ UNCHANGED <<content, preserve_order, spec_value, key_order, patches_run,
                   applied, prev, generator_input, out_file>>
    /\ UNCHANGED authVars

\* main, steps 6 and 7: hand the root schema to the type generator, which
\* accepts it or fails.
Generate ==
    /\ pc = "extracted"
    /\ generator_input' = definitions
    /\ \E accepted \in BOOLEAN :
          IF accepted
          THEN pc' = "generated" /\ err' = err
          ELSE pc' = "panicked" /\ err' = Panic("Generate", "", "", "")
    /\ UNCHANGED <<content, preserve_order, spec_value, key_order, patches_run,
                   applied, prev, definitions, out_file>>
    /\ UNCHANGED authVars

\* main, step 8: format the generated code and write it under OUT_DIR.
Write ==
    /\ pc = "generated"
    /\ \E written \in BOOLEAN :
          IF written
          THEN pc' = "done" /\ err' = err /\ out_file' = "written"
          ELSE pc' = "panicked" /\ err' = Panic("Write", "", "", "") /\ out_file' = out_file
    /\ UNCHANGED <<content, preserve_order, spec_value, key_order, patches_run,
                   applied, prev, definitions, generator_input>>
    /\ UNCHANGED authVars

Next == Load \/ Patch \/ Extract \/ Generate \/ Write

Spec == Init /\ [][Next]_vars

\* apply_all_patches run again on a document it has already patched.
Repatch ==
    /\ pc = "patched"
    /\ applied < MaxApply
    /\ ApplyTo(spec_value)

NextPatch == Load \/ Patch \/ Repatch

SpecPatch == Init /\ [][NextPatch]_vars

\* The pipeline at rest while the client is exercised.
PipeIdle ==
    /\ pc = "start"
    /\ content = [readable |-> FALSE, wellformed |-> FALSE, value |-> JNull, order |-> <<>>]
    /\ preserve_order = FALSE
    /\ spec_value = JNull
    /\ key_order = <<>>
    /\ err = NoErr
    /\ patches_run = 0
    /\ applied = 0
    /\ prev = JNull
    /\ definitions = NoMap
    /\ generator_input = NoMap
    /\ out_file = "absent"

InitAuth == AuthInit /\ PipeIdle

NextAuth ==
    \E p \in Tasks :
       \/ Call(p)
       \/ Send(p)
       \/ Serve(p)
       \/ TransportFail(p)
       \/ Receive(p)
       \/ Parse(p)
       \/ Store(p)
       \/ Clear(p)
       \/ Finish(p)
       \/ ReadToken(p)

SpecAuth == InitAuth /\ [][NextAuth]_vars

\* A step of the call task p is in: the runtime polls a task that can go on,
\* and a request that has been sent is answered or fails.
Progress(p) ==
    \/ Send(p)
    \/ Serve(p)
    \/ TransportFail(p)
    \/ Receive(p)
    \/ Parse(p)
    \/ Store(p)
    \/ Clear(p)
    \/ Finish(p)
    \/ ReadToken(p)

SpecAuthFair == SpecAuth /\ \A p \in Tasks : WF_vars(Progress(p))

\* ---------------------------------------------------- notions of the claims
\* The input document's schemas object and the current one.
InputSchemas == SchemasOf(content.value)
CurrentSchemas == SchemasOf(spec_value)

FieldOf(sch) == sch.m[schema_name].m["properties"].m[field_name]
ChildOf(sch) == FieldOf(sch).m["additionalProperties"]

\* Every segment of the targeted path is present and of the required shape.
PathResolves(sch) ==
    /\ Has(sch, schema_name)
    /\ Has(sch.m[schema_name], "properties")
    /\ Has(sch.m[schema_name].m["properties"], field_name)
    /\ Has(FieldOf(sch), "additionalProperties")
    /\ ChildOf(sch).t = "obj"

\* The run got past the patch engine without a panic.
PatchSucceeded ==
    \/ pc \in {"patched", "extracted", "generated", "done"}
    \/ pc = "panicked" /\ err.kind \in {"SchemaCast", "Generate", "Write"}

\* The structural pattern: an object-typed node whose additionalProperties
\* child is an object declaring type "string"; and its rewritten form.
Matches(n) ==
    /\ Has(n, "type") /\ EqStr(n.m["type"], "object")
    /\ Has(n, "additionalProperties")
    /\ Has(n.m["additionalProperties"], "type")
    /\ EqStr(n.m["additionalProperties"].m["type"], "string")

Rewritten(n) ==
    /\ Has(n, "nullable") /\ n.m["nullable"] = JTrue
    /\ Has(n, "additionalProperties")
    /\ Has(n.m["additionalProperties"], "type")
    /\ n.m["additionalProperties"].m["type"] = StringOrNull

\* Every node of the tree b that matches the pattern is rewritten in a.
RECURSIVE EveryMatchRewritten(_, _)
EveryMatchRewritten(b, a) ==
    /\ Matches(b) => Rewritten(a)
    /\ \A k \in DOMAIN b.m :
          /\ a.t = b.t /\ k \in DOMAIN a.m
          /\ EveryMatchRewritten(b.m[k], a.m[k])

\* The node itself is as it was: same variant, same keys, same scalar
\* members, members of the same variant.
NodeUntouched(b, a) ==
    /\ a.t = b.t /\ a.s = b.s
    /\ DOMAIN a.m = DOMAIN b.m
    /\ \A k \in DOMAIN b.m :
          /\ a.m[k].t = b.m[k].t
          /\ b.m[k].t \notin {"obj", "arr"} => a.m[k] = b.m[k]

\* Every node of b that neither matches the pattern nor lies in the
\* additionalProperties child of a matching node is untouched in a.
RECURSIVE NonMatchingUntouched(_, _, _)
NonMatchingUntouched(b, a, inMatch) ==
    /\ (~Matches(b) /\ ~inMatch) => NodeUntouched(b, a)
    /\ (a.t = b.t /\ DOMAIN b.m \subseteq DOMAIN a.m) =>
          \A k \in DOMAIN b.m :
             NonMatchingUntouched(b.m[k], a.m[k],
                                  inMatch \/ (Matches(b) /\ k = "additionalProperties"))

\* The keys leading from the schemas object to the additionalProperties
\* child of the target field, and the entries the patch may write at each
\* level (level 4 is the field, level 5 its additionalProperties child).
Descend == <<schema_name, "properties", field_name, "additionalProperties">>
MayChange == <<{}, {}, {}, {"nullable"}, {"type", "nullable"}>>

\* Every entry of b that is off the target path is still there and equal.
RECURSIVE OffPathUntouched(_, _, _)
OffPathUntouched(b, a, lvl) ==
    /\ a.t = b.t
    /\ \A k \in DOMAIN b.m :
          /\ k \in DOMAIN a.m
          /\ IF lvl <= Len(Descend) /\ k = Descend[lvl]
             THEN OffPathUntouched(b.m[k], a.m[k], lvl + 1)
             ELSE k \in MayChange[lvl] \/ a.m[k] = b.m[k]

Names(entries) == [i \in DOMAIN entries |-> entries[i].name]

\* An entry of an object keeps its presence and its value.
SameEntry(b, a, k) ==
    /\ (k \in DOMAIN a.m) = (k \in DOMAIN b.m)
    /\ k \in DOMAIN b.m => a.m[k] = b.m[k]

\* ------------------------------------------------------------------ claims

\* C1 (as stated): whenever apply_all_patches succeeds a second (or later)
\* time on an already patched document, the document is equal to what it
\* was before that application.
C1_Idempotent ==
    (pc = "patched" /\ applied >= 2) => spec_value = prev

\* C2 (as stated): the keys of the extraction result are in the order in
\* which the source document lists the keys of components.schemas.
C2_SourceOrder ==
    definitions.set => Names(definitions.entries) = content.order

\* C2 (amended): the keys of the extraction result are exactly the keys of
\* components.schemas, in strictly ascending key order, whatever the order
\* of the source document.
C2_AscendingOrder ==
    definitions.set =>
        /\ {definitions.entries[i].name : i \in DOMAIN definitions.entries}
              = DOMAIN InputSchemas.m
        /\ \A i, j \in DOMAIN definitions.entries :
              i < j => StrLess(definitions.entries[i].name, definitions.entries[j].name)

\* C2 witness: an extraction from a document that lists three schemas in an
\* order that is not the ascending one.
C2_Witness ==
    /\ definitions.set
    /\ Len(content.order) = 3
    /\ content.order # Ascending(DOMAIN InputSchemas.m)

\* C3 (as stated): after the patch engine has run, every node under
\* components.schemas that matched the structural pattern is rewritten.
C3_EveryMatchRewritten ==
    PatchSucceeded => EveryMatchRewritten(InputSchemas, CurrentSchemas)

\* C3 (amended): after the patch engine has run, the node at
\* ParameterProviderDTO.properties.properties, if it matched the structural
\* pattern, carries nullable: true and a child type of ["string","null"].
C3_TargetMatchRewritten ==
    PatchSucceeded =>
        (Matches(FieldOf(InputSchemas)) => Rewritten(FieldOf(CurrentSchemas)))

\* C3 witness: a successful patch of a document whose target field matched
\* the pattern.
C3_Witness ==
    /\ PatchSucceeded
    /\ Matches(FieldOf(InputSchemas))
    /\ ~Rewritten(FieldOf(InputSchemas))

\* C4 (as stated): after a successful run of the patch engine every node
\* that does not match the structural pattern (and is not part of the
\* additionalProperties child of a node that does) is as it was.
C4_NonMatchingUntouched ==
    PatchSucceeded => NonMatchingUntouched(InputSchemas, CurrentSchemas, FALSE)

\* C4 (amended): after a successful run of the patch engine every entry
\* under components.schemas is equal to its value before patching, except
\* the nullable entry of the target field and the type and nullable entries
\* of its additionalProperties child (and the nodes containing them),
\* whether or not the target field matches the pattern.
C4_OffPathUntouched ==
    PatchSucceeded => OffPathUntouched(InputSchemas, CurrentSchemas, 1)

\* C4 witness: a successful patch of a document whose target field does not
\* match the pattern and that holds a matching node in another schema.
C4_Witness ==
    /\ PatchSucceeded
    /\ ~Matches(FieldOf(InputSchemas))
    /\ Has(InputSchemas, "Alpha") /\ Has(InputSchemas.m["Alpha"], "allOf")
    /\ Has(FieldOf(InputSchemas), "type")

\* C5: when the targeted path resolves, the patch succeeds, the field
\* carries nullable: true, and the child either had type "string", which is
\* now ["string","null"] with its nullable entry as it was, or keeps its
\* type entry as it was and carries nullable: true.
C5_TargetedEffect ==
    (applied >= 1 /\ HasSchemas(content.value) /\ PathResolves(InputSchemas)) =>
        /\ PatchSucceeded
        /\ Has(FieldOf(CurrentSchemas), "nullable")
        /\ FieldOf(CurrentSchemas).m["nullable"] = JTrue
        /\ Has(FieldOf(CurrentSchemas), "additionalProperties")
        /\ IF Has(ChildOf(InputSchemas), "type")
              /\ EqStr(ChildOf(InputSchemas).m["type"], "string")
           THEN /\ Has(ChildOf(CurrentSchemas), "type")
                /\ ChildOf(CurrentSchemas).m["type"] = StringOrNull
                /\ SameEntry(ChildOf(InputSchemas), ChildOf(CurrentSchemas), "nullable")
           ELSE /\ SameEntry(ChildOf(InputSchemas), ChildOf(CurrentSchemas), "type")
                /\ Has(ChildOf(CurrentSchemas), "nullable")
                /\ ChildOf(CurrentSchemas).m["nullable"] = JTrue

\* C5 witness: a successful patch of a field whose child declared type
\* "string" together with nullable: false.
C5_Witness ==
    /\ PatchSucceeded
    /\ Has(ChildOf(InputSchemas), "nullable")
    /\ EqStr(ChildOf(InputSchemas).m["type"], "string")

\* C6: a document without components or without components.schemas makes
\* the run panic with the missing-section error in apply_all_patches, with
\* no patch invoked, no extraction result, nothing handed to the generator
\* and no output file.
C6_MissingSectionFatal ==
    (content.readable /\ content.wellformed /\ ~HasSchemas(content.value)
       /\ pc \notin {"start", "loaded"}) =>
        /\ pc = "panicked"
        /\ err = ErrMissingSection
        /\ patches_run = 0
        /\ applied = 1
        /\ ~definitions.set /\ ~generator_input.set /\ out_file = "absent"

\* C6 witness: the run has panicked on a document that has components but
\* no schemas under it.
C6_Witness ==
    /\ pc = "panicked"
    /\ err.kind = "MissingSection"
    /\ Has(content.value, "components")

\* C7: a document in which a segment of the targeted path is absent or of
\* the wrong shape makes the run panic with a path-resolution error; it
\* never reaches extraction, type generation or the output write.
C7_MissingPathFatal ==
    (content.readable /\ content.wellformed /\ HasSchemas(content.value)
       /\ ~PathResolves(InputSchemas) /\ pc \notin {"start", "loaded"}) =>
        /\ pc = "panicked"
        /\ err.kind = "PathResolution"
        /\ ~definitions.set /\ ~generator_input.set /\ out_file = "absent"

\* C7 witness: the run has panicked on a target field whose
\* additionalProperties is the boolean short-hand.
C7_Witness ==
    /\ pc = "panicked"
    /\ err = ErrAddPropsNotObject
    /\ FieldOf(InputSchemas).m["additionalProperties"] = JTrue

\* C8 (as stated): every path-resolution error names the schema, the field
\* and the segment that could not be resolved.
C8_ErrorNamesSchemaAndField ==
    (pc = "panicked" /\ err.kind = "PathResolution") =>
        /\ err.schema = schema_name
        /\ err.field = field_name
        /\ err.segment # ""

\* C9 (as stated): when the targeted patch panics, the tree is equal to the
\* tree before the patch started.
C9_NoPartialPatch ==
    (pc = "panicked" /\ err.kind = "PathResolution") => spec_value = content.value

\* C10: after a successful patch, if every entry of components.schemas
\* deserializes as a schema the extraction result holds all of them, and if
\* one does not the run stops at extraction with no mapping at all, nothing
\* handed to the generator and no output file.
C10_AllOrNothing ==
    (PatchSucceeded /\ pc # "patched") =>
        IF \A k \in DOMAIN CurrentSchemas.m : Castable(CurrentSchemas.m[k])
        THEN /\ definitions.set
             /\ Len(definitions.entries) = Cardinality(DOMAIN CurrentSchemas.m)
             /\ \A k \in DOMAIN CurrentSchemas.m :
                   \E i \in DOMAIN definitions.entries :
                      /\ definitions.entries[i].name = k
                      /\ definitions.entries[i].schema = CurrentSchemas.m[k]
        ELSE /\ pc = "panicked" /\ err.kind = "SchemaCast"
             /\ definitions = NoMap /\ generator_input = NoMap /\ out_file = "absent"

\* C10 witness: extraction has failed on a document with one entry that
\* does not deserialize next to two that do.
C10_Witness ==
    /\ pc = "panicked" /\ err.kind = "SchemaCast"
    /\ Cardinality({k \in DOMAIN CurrentSchemas.m : Castable(CurrentSchemas.m[k])}) = 2
    /\ Cardinality(DOMAIN CurrentSchemas.m) = 3

\* C11: the extraction result has one entry for each key of
\* components.schemas, no more and no fewer, and each entry holds the
\* patched node stored under its key.
C11_NothingLostOrInvented ==
    definitions.set =>
        /\ Len(definitions.entries) = Cardinality(DOMAIN InputSchemas.m)
        /\ \A k \in DOMAIN InputSchemas.m :
              Cardinality({i \in DOMAIN definitions.entries :
                              definitions.entries[i].name = k}) = 1
        /\ \A i \in DOMAIN definitions.entries :
              /\ definitions.entries[i].name \in DOMAIN CurrentSchemas.m
              /\ definitions.entries[i].schema = CurrentSchemas.m[definitions.entries[i].name]

\* C11 witness: an extraction of three schemas from a document that the
\* patch has changed.
C11_Witness ==
    /\ definitions.set
    /\ Len(definitions.entries) = 3
    /\ spec_value # content.value

\* The stages of a run in their order.
Stages == <<"start", "loaded", "patched", "extracted", "generated", "done">>
StageRank(s) == CHOOSE i \in DOMAIN Stages : Stages[i] = s

\* C12: every step of a run moves to the next stage or ends the run with a
\* panic; no step leaves a panic; the definitions are read in the step out
\* of the patched stage, after the one call of apply_all_patches and its
\* patch; apply_all_patches is never called a second time.
C12_StrictlyForward ==
    [][ /\ pc # "panicked"
        /\ pc' = "panicked" \/ StageRank(pc') = StageRank(pc) + 1
        /\ (definitions'.set /\ ~definitions.set) =>
              (pc = "patched" /\ applied = 1 /\ patches_run = 1)
        /\ applied' <= 1 ]_vars

\* C12 witness: the run has gone through loading and patching and has
\* extracted the definitions.
C12_Witness ==
    /\ pc = "extracted"
    /\ applied = 1
    /\ definitions.set

\* C13: a run whose file cannot be read or parsed stops there; once an
\* error is recorded the run has stopped and no later stage has run; the
\* output file is written only in a run in which loading, patching,
\* extraction and generation all succeeded.
C13_FailureTerminal ==
    /\ (pc # "start" /\ ~content.readable) => (pc = "panicked" /\ err.kind = "Read")
    /\ (pc # "start" /\ content.readable /\ ~content.wellformed) =>
          (pc = "panicked" /\ err.kind = "Parse")
    /\ err.kind # "none" => (pc = "panicked" /\ out_file = "absent")
    /\ err.kind \in {"Read", "Parse"} =>
          (applied = 0 /\ ~definitions.set /\ ~generator_input.set)
    /\ err.kind \in {"PathResolution", "MissingSection"} =>
          (~definitions.set /\ ~generator_input.set)
    /\ err.kind = "SchemaCast" => (~definitions.set /\ ~generator_input.set)
    /\ out_file = "written" =>
          /\ pc = "done" /\ err = NoErr
          /\ applied = 1
          /\ definitions.set /\ generator_input = definitions

\* C13 witness: the run has stopped on text that is not well-formed JSON.
C13_Witness ==
    /\ pc = "panicked"
    /\ err.kind = "Parse"

\* The two encodings of "the value may be null" on a schema node.
TypeEncoded(c) == Has(c, "type") /\ c.m["type"] = StringOrNull
MarkerEncoded(c) == Has(c, "nullable") /\ c.m["nullable"] = JTrue

\* C19 (as stated): after one or more successful applications of the patch
\* list to a document whose additionalProperties child carried no
\* nullability encoding, the field carries nullable: true and the child
\* carries exactly one encoding: type ["string","null"] without a nullable
\* marker, or nullable: true with its original type, never both.
C19_SingleEncoding ==
    (pc = "patched" /\ applied >= 1
       /\ ~Has(ChildOf(InputSchemas), "nullable")
       /\ ~TypeEncoded(ChildOf(InputSchemas))) =>
        /\ MarkerEncoded(FieldOf(CurrentSchemas))
        /\ \/ /\ TypeEncoded(ChildOf(CurrentSchemas))
              /\ ~Has(ChildOf(CurrentSchemas), "nullable")
           \/ /\ MarkerEncoded(ChildOf(CurrentSchemas))
              /\ SameEntry(ChildOf(InputSchemas), ChildOf(CurrentSchemas), "type")
        /\ ~(TypeEncoded(ChildOf(CurrentSchemas)) /\ MarkerEncoded(ChildOf(CurrentSchemas)))

\* The object a agrees with the object b on every key outside keys.
SameExcept(b, a, keys) ==
    /\ a.t = b.t
    /\ DOMAIN a.m \ keys = DOMAIN b.m \ keys
    /\ \A k \in DOMAIN b.m \ keys : a.m[k] = b.m[k]

\* C20: a successful run of the targeted patch leaves the document as it was
\* outside components.schemas, leaves every other schema, every other entry
\* of ParameterProviderDTO and every other field as they were, keeps every
\* key of the field and of its additionalProperties child, and changes of
\* these two nodes only the field's nullable entry and either the type or
\* the nullable entry of the child.
C20_TargetedFrame ==
    PatchSucceeded =>
        /\ SameExcept(content.value, spec_value, {"components"})
        /\ SameExcept(content.value.m["components"], spec_value.m["components"], {"schemas"})
        /\ SameExcept(InputSchemas, CurrentSchemas, {schema_name})
        /\ DOMAIN CurrentSchemas.m = DOMAIN InputSchemas.m
        /\ SameExcept(InputSchemas.m[schema_name], CurrentSchemas.m[schema_name], {"properties"})
        /\ SameExcept(InputSchemas.m[schema_name].m["properties"],
                      CurrentSchemas.m[schema_name].m["properties"], {field_name})
        /\ SameExcept(FieldOf(InputSchemas), FieldOf(CurrentSchemas),
                      {"nullable", "additionalProperties"})
        /\ SameExcept(ChildOf(InputSchemas), ChildOf(CurrentSchemas), {"type", "nullable"})
        /\ DOMAIN ChildOf(InputSchemas).m \subseteq DOMAIN ChildOf(CurrentSchemas).m
        /\ \/ SameEntry(ChildOf(InputSchemas), ChildOf(CurrentSchemas), "type")
           \/ SameEntry(ChildOf(InputSchemas), ChildOf(CurrentSchemas), "nullable")

\* C20 witness: a successful patch of a document that holds two other
\* schemas and a key outside components.
C20_Witness ==
    /\ PatchSucceeded
    /\ spec_value # content.value
    /\ Cardinality(DOMAIN InputSchemas.m) = 3
    /\ Has(content.value, "openapi")

\* The token a handle sees.
TokenOf(h) == auth_token[Cell(h)]

\* C15: when get_access_token has returned Ok(t) and no token write has been
\* made since its own, the token seen through every handle is Some(t); and a
\* get_auth_token that read the token after that write and before any other
\* returned Some(t).
C15_LoginStoresToken ==
    \A p \in Tasks :
       (tpc[p] = "idle" /\ result[p].op = "login" /\ result[p].kind = "Ok") =>
          /\ result[p].token # None
          /\ result[p].seen = writes => \A h \in Tasks : TokenOf(h) = result[p].token
          /\ \A q \in Tasks :
                (result[q].op = "get_auth_token" /\ result[q].seen = result[p].seen)
                   => (result[q].kind = "Ok" /\ result[q].token = result[p].token)

\* C15 witness: one task has logged in and another task's get_auth_token
\* has then read the token.
C15_Witness ==
    \E p, q \in Tasks :
       /\ p # q
       /\ tpc[p] = "idle" /\ result[p].op = "login" /\ result[p].kind = "Ok"
       /\ result[p].seen = writes
       /\ tpc[q] = "idle" /\ result[q].op = "get_auth_token"
       /\ result[q].seen = result[p].seen

\* C16: a new client holds no token, and when logout has returned Ok and no
\* token write has been made since its own, the token seen through every
\* handle is None.
C16_LogoutClearsToken ==
    /\ writes = 0 => \A c \in Cells : auth_token[c] = None
    /\ \A p \in Tasks :
          (tpc[p] = "idle" /\ result[p].op = "logout" /\ result[p].kind = "Ok"
             /\ result[p].seen = writes)
          => \A h \in Tasks : TokenOf(h) = None

\* C16 witness: a logout has returned Ok after a login had stored its
\* token.
C16_Witness ==
    \E p \in Tasks :
       /\ tpc[p] = "idle" /\ result[p].op = "logout" /\ result[p].kind = "Ok"
       /\ result[p].seen = writes
       /\ writes = 2
       /\ server.issued = 1

\* C17: a request in flight carries Bearer t exactly when the token seen
\* through every handle is Some(t), and no Authorization header exactly when
\* it is None.
C17_TokenSharedAndAttached ==
    \A p \in Tasks :
       tpc[p] \in {"in_flight", "served"} =>
          \A h \in Tasks :
             \/ TokenOf(h) = None /\ hdr[p].scheme = "none"
             \/ TokenOf(h) # None /\ hdr[p].scheme = "Bearer" /\ hdr[p].token = TokenOf(h)

\* C17 witness: a request of one task is in flight with the token that a
\* login of another task has stored.
C17_Witness ==
    \E p, q \in Tasks :
       /\ p # q
       /\ tpc[p] = "in_flight" /\ hdr[p].scheme = "Bearer"
       /\ result[q].op = "login" /\ result[q].kind = "Ok"
       /\ result[q].token = hdr[p].token

\* C18 (as stated): once all calls have returned (and none of them failed),
\* the stored token is Some(t) if the request the server processed last was
\* the login that issued t, and None if it was a logout.
C18_LoginLogoutAtomic ==
    ((\A p \in Tasks : tpc[p] = "idle") /\ ~any_err /\ server.last # "none") =>
        \A h \in Tasks : TokenOf(h) = server.token

\* Nothing of the tree b is taken away in the tree a: every container of b
\* is a container of the same kind in a with at least the keys of b, a
\* nullable: true of b is a nullable: true of a, and a ["string","null"]
\* type of b is the type of a.
RECURSIVE OnlyAdded(_, _)
OnlyAdded(b, a) ==
    b.t \in {"obj", "arr"} =>
       /\ a.t = b.t
       /\ DOMAIN b.m \subseteq DOMAIN a.m
       /\ \A k \in DOMAIN b.m :
             /\ (b.t = "obj" /\ k = "nullable" /\ b.m[k] = JTrue) => a.m[k] = JTrue
             /\ (b.t = "obj" /\ k = "type" /\ b.m[k] = StringOrNull) => a.m[k] = StringOrNull
             /\ OnlyAdded(b.m[k], a.m[k])

\* C21: through any number of applications of the patch list, whether they
\* succeed or panic, no key of the document is removed and no nullable: true
\* marker and no ["string","null"] type is reverted, compared with the
\* document before the last application and with the document as loaded.
C21_OnlyAddOrNormalize ==
    applied >= 1 =>
        /\ OnlyAdded(prev, spec_value)
        /\ OnlyAdded(content.value, spec_value)

\* C21 witness: a second application has changed a document in which the
\* first one had written the ["string","null"] type.
C21_Witness ==
    /\ pc = "patched"
    /\ applied = 2
    /\ spec_value # prev
    /\ TypeEncoded(ChildOf(SchemasOf(prev)))
    /\ ~TypeEncoded(ChildOf(InputSchemas))

\* A node that carries the boolean short-hand (or any other non-object) as
\* its additionalProperties.
HasShorthand(n) == Has(n, "additionalProperties") /\ n.m["additionalProperties"].t # "obj"

\* Every short-hand node of b is unchanged in a.
RECURSIVE ShorthandUnchanged(_, _)
ShorthandUnchanged(b, a) ==
    /\ HasShorthand(b) => a = b
    /\ b.t \in {"obj", "arr"} =>
          /\ a.t = b.t
          /\ DOMAIN b.m \subseteq DOMAIN a.m
          /\ \A k \in DOMAIN b.m : ShorthandUnchanged(b.m[k], a.m[k])

\* Every short-hand node of b other than the target field is unchanged in
\* a; lvl is the place in Descend of the key that leads on towards the
\* target field (the field itself is at level 4), 0 off that path.
RECURSIVE ShorthandUnchangedOffTarget(_, _, _)
ShorthandUnchangedOffTarget(b, a, lvl) ==
    /\ (HasShorthand(b) /\ lvl # 4) => a = b
    /\ b.t \in {"obj", "arr"} =>
          /\ a.t = b.t
          /\ DOMAIN b.m \subseteq DOMAIN a.m
          /\ \A k \in DOMAIN b.m :
                ShorthandUnchangedOffTarget(b.m[k], a.m[k],
                    IF lvl \in 1..3 /\ b.t = "obj" /\ k = Descend[lvl] THEN lvl + 1 ELSE 0)

\* The target field is there and is a short-hand node.
TargetIsShorthand(sch) ==
    /\ nav_error(sch) = NoErr
    /\ HasShorthand(FieldOf(sch))

\* C22 (as stated): after the patch engine has run, every node under
\* components.schemas whose additionalProperties is present but not an
\* object is as it was, and the run has not failed on such a node.
C22_ShorthandSkipped ==
    (applied >= 1 /\ HasSchemas(content.value)) =>
        /\ ShorthandUnchanged(InputSchemas, CurrentSchemas)
        /\ err # ErrAddPropsNotObject

\* C22 (amended): every node whose additionalProperties is present but not
\* an object, other than the field ParameterProviderDTO.properties.properties,
\* is as it was after the patch engine has run and makes no run fail; when
\* that field itself is such a node the run panics in the patch with the
\* "additionalProperties is not a JSON object" error, the field having
\* gained nullable: true and nothing else having changed, and no extraction,
\* generation or write takes place; a run whose target path resolves and
\* whose schema Zeta is such a node gets past patching and extraction.
C22_ShorthandOffTargetOnly ==
    (applied >= 1 /\ HasSchemas(content.value)) =>
        /\ ShorthandUnchangedOffTarget(InputSchemas, CurrentSchemas, 1)
        /\ (err = ErrAddPropsNotObject) = TargetIsShorthand(InputSchemas)
        /\ TargetIsShorthand(InputSchemas) =>
              /\ pc = "panicked"
              /\ CurrentSchemas = WithField(InputSchemas, patch_a(FieldOf(InputSchemas)))
              /\ ~definitions.set /\ ~generator_input.set /\ out_file = "absent"
        /\ (PathResolves(InputSchemas) /\ Has(InputSchemas, "Zeta")
              /\ HasShorthand(InputSchemas.m["Zeta"])) =>
              err.kind \notin {"PathResolution", "MissingSection", "SchemaCast"}

\* C22 witness: the run has panicked on the boolean short-hand under the
\* target field of a document that holds another short-hand node in the
\* schema Zeta.
C22_Witness ==
    /\ pc = "panicked"
    /\ err = ErrAddPropsNotObject
    /\ Has(InputSchemas, "Zeta")
    /\ HasShorthand(InputSchemas.m["Zeta"])
    /\ CurrentSchemas.m["Zeta"] = InputSchemas.m["Zeta"]

\* C23: once the patch engine has succeeded the document stays the tree the
\* patch engine produced from the loaded document, through an extraction
\* that succeeds and through one that fails, and through the later stages.
C23_ExtractionReadOnly ==
    PatchSucceeded => spec_value = apply_all_patches(content.value).tree

\* C23 witness: the extraction has failed on a document that the patch had
\* changed.
C23_Witness ==
    /\ pc = "panicked"
    /\ err.kind = "SchemaCast"
    /\ spec_value # content.value
    /\ applied = 1

\* The entries of components.schemas that do not deserialize as a schema.
Offenders == {k \in DOMAIN CurrentSchemas.m : ~Castable(CurrentSchemas.m[k])}

\* C24 (as stated): when the run aborts because an entry of
\* components.schemas cannot be read as a schema, the error names an entry
\* that cannot be read.
C24_CastErrorNamesSchema ==
    (pc = "panicked" /\ err.kind = "SchemaCast") => err.schema \in Offenders

\* The step in which the call of task p returns.
Returns(p) == tpc[p] # "idle" /\ tpc'[p] = "idle"

\* The positions of a call at which its request is on its way.
InFlight(p) == tpc[p] \in {"in_flight", "served"}

\* C25: a get_access_token that returns an error returns a RequestError, an
\* HttpError or a ParseError from a position before set_auth_token, has not
\* written the token, and its return leaves the token as it is: None or the
\* token of an earlier login.
C25_FailedLoginKeepsToken ==
    [][ \A p \in Tasks :
          (Returns(p) /\ op[p] = "login" /\ result'[p].kind # "Ok") =>
             /\ result'[p].kind \in {"RequestError", "HttpError", "ParseError"}
             /\ tpc[p] \in {"in_flight", "served", "parse"}
             /\ resp[p].seen = 0
             /\ auth_token' = auth_token
             /\ writes' = writes ]_vars

\* C25 witness: a login has been refused while the token of an earlier
\* login is stored.
C25_Witness ==
    \E p \in Tasks :
       /\ tpc[p] = "idle"
       /\ result[p].op = "login" /\ result[p].kind = "HttpError"
       /\ writes = 1
       /\ TokenOf(p) # None

\* C26: a logout whose DELETE fails returns that RequestError or HttpError
\* from inside the request, before clear_auth_token, has not written the
\* token, and its return leaves the token as it is.
C26_FailedLogoutKeepsToken ==
    [][ \A p \in Tasks :
          (Returns(p) /\ op[p] = "logout" /\ result'[p].kind # "Ok") =>
             /\ result'[p].kind \in {"RequestError", "HttpError"}
             /\ InFlight(p)
             /\ resp[p].seen = 0
             /\ auth_token' = auth_token
             /\ writes' = writes ]_vars

\* C26 witness: a logout has failed after the server had processed it, with
\* the token of an earlier login still stored.
C26_Witness ==
    \E p \in Tasks :
       /\ tpc[p] = "idle"
       /\ result[p].op = "logout" /\ result[p].kind = "RequestError"
       /\ server.last = "logout"
       /\ TokenOf(p) # None

\* C27: a call whose request is in flight holds the read lock and no task
\* holds the write lock, and no step taken while a request is in flight
\* changes the token.
C27_TokenStableInFlight ==
    [][ /\ \A p \in Tasks :
             InFlight(p) => (p \in lock[Cell(p)].readers /\ lock[Cell(p)].writer = 0)
        /\ (\E p \in Tasks : InFlight(p)) => (auth_token' = auth_token /\ writes' = writes) ]_vars

\* C27 witness: a login waits for the write lock while the request of
\* another call is in flight.
C27_Witness ==
    \E p, q \in Tasks :
       /\ tpc[p] = "in_flight"
       /\ tpc[q] = "set_write"
       /\ lock[Cell(q)].writer # q

\* C28: a call that is past its request no longer holds the read lock, and
\* under fair scheduling every call returns.
C28_EveryCallReturns ==
    /\ [](\A p \in Tasks :
            tpc[p] \in {"parse", "set_write", "clear_write", "stored"}
               => p \notin lock[Cell(p)].readers)
    /\ \A p \in Tasks : (tpc[p] # "idle") ~> (tpc[p] = "idle")

\* C28 witness: a request waits for the read lock behind a task that holds
\* the write lock.
C28_Witness ==
    \E p, q \in Tasks :
       /\ tpc[p] = "exec_read"
       /\ p \notin lock[Cell(p)].readers
       /\ lock[Cell(p)].writer = q
       /\ tpc[q] \in {"set_write", "clear_write"}

\* C29: a call whose request fails in transport returns RequestError; a
\* call that receives a 4xx/5xx response returns HttpError with that status
\* and never reaches the parser; ParseError is returned only from the parser
\* on a response with a successful status.
C29_ErrorClassification ==
    [][ \A p \in Tasks :
          /\ tpc[p] = "parse" => resp[p].status = SuccessStatus
          /\ (tpc[p] = "in_flight" /\ tpc'[p] # "in_flight") =>
                (tpc'[p] = "served" \/ (tpc'[p] = "idle" /\ result'[p].kind = "RequestError"))
          /\ (tpc[p] = "served" /\ resp[p].status \in ErrorStatuses /\ tpc'[p] # "served") =>
                /\ tpc'[p] = "idle"
                /\ result'[p].kind \in {"HttpError", "RequestError"}
          /\ Returns(p) =>
                /\ result'[p].kind = "RequestError" => InFlight(p)
                /\ result'[p].kind = "HttpError" =>
                      /\ tpc[p] = "served"
                      /\ resp[p].status \in ErrorStatuses
                      /\ result'[p].status = resp[p].status
                /\ result'[p].kind = "ParseError" =>
                      /\ tpc[p] = "parse"
                      /\ resp[p].status = SuccessStatus
                /\ result'[p].kind \in {"Ok", "RequestError", "HttpError", "ParseError"} ]_vars

\* C29 witness: one call has returned HttpError with status 500 and another
\* one ParseError.
C29_Witness ==
    \E p, q \in Tasks :
       /\ result[p].kind = "HttpError" /\ result[p].status = "500"
       /\ result[q].kind = "ParseError"

====
